---------------------------- MODULE Spec2Model ----------------------------
(***************************************************************************)
(* A model of discord_bot.py: the summarize_custom and summarize command   *)
(* handlers, the date-range message fetcher, the summarizer with its       *)
(* fallback, and the chunked delivery of the result.                        *)
(*                                                                          *)
(* A Python str is a sequence of one-character strings; a character the     *)
(* source writes as an emoji is one element with a bracketed name.          *)
(***************************************************************************)
EXTENDS Integers, Sequences, FiniteSets, TLC

(***************************************************************************)
(* Bounds of the model.                                                     *)
(***************************************************************************)
\* The largest channel history, in messages (bots included).
MaxHistory == 205
\* The longest backend answer, in transport-sized segments.
MaxSegments == 2

(***************************************************************************)
(* str helpers.                                                             *)
(***************************************************************************)
Min(a, b) == IF a < b THEN a ELSE b

DigitChars == <<"0", "1", "2", "3", "4", "5", "6", "7", "8", "9">>

\* str(n) for an int n.
RECURSIVE NatStr(_)
NatStr(n) == IF n < 10 THEN <<DigitChars[n + 1]>>
             ELSE NatStr(n \div 10) \o <<DigitChars[(n % 10) + 1]>>

Str(n) == IF n < 0 THEN <<"-">> \o NatStr(-n) ELSE NatStr(n)

\* A number zero-padded to two and to four digits (strftime's %m, %d, %H, %M, %Y).
Pad2(n) == IF n < 10 THEN <<"0">> \o NatStr(n) ELSE NatStr(n)

Pad4(n) == [i \in 1..(4 - Len(NatStr(n))) |-> "0"] \o NatStr(n)

\* s[:n]
Take(s, n) == SubSeq(s, 1, Min(n, Len(s)))

\* s[i:i+n], i counted from 0
Slice(s, i, n) == SubSeq(s, i + 1, Min(i + n, Len(s)))

\* sep.join(ss)
RECURSIVE Join(_, _)
Join(sep, ss) == IF Len(ss) = 0 THEN <<>>
                 ELSE IF Len(ss) = 1 THEN ss[1]
                 ELSE ss[1] \o sep \o Join(sep, Tail(ss))

\* c in s
Contains(s, c) == \E i \in 1..Len(s) : s[i] = c

\* s.split(c)[0]
SplitFirst(s, c) ==
    IF Contains(s, c)
    THEN SubSeq(s, 1, (CHOOSE i \in 1..Len(s) : s[i] = c /\ \A j \in 1..(i - 1) : s[j] # c) - 1)
    ELSE s

\* s.split(c)
RECURSIVE Split(_, _)
Split(s, c) == IF Contains(s, c)
               THEN <<SplitFirst(s, c)>> \o Split(SubSeq(s, Len(SplitFirst(s, c)) + 2, Len(s)), c)
               ELSE <<s>>

\* list(reversed(s))
Reverse(s) == [i \in 1..Len(s) |-> s[Len(s) + 1 - i]]

(***************************************************************************)
(* datetime: a date is its proleptic Gregorian ordinal, as in Python.       *)
(***************************************************************************)
IsLeap(y) == (y % 4 = 0) /\ ((y % 100 # 0) \/ (y % 400 = 0))

DaysInMonth(y, m) == IF m = 2 THEN (IF IsLeap(y) THEN 29 ELSE 28)
                     ELSE IF m \in {4, 6, 9, 11} THEN 30 ELSE 31

RECURSIVE DaysBeforeMonth(_, _)
DaysBeforeMonth(y, m) == IF m = 1 THEN 0
                         ELSE DaysBeforeMonth(y, m - 1) + DaysInMonth(y, m - 1)

DaysBeforeYear(y) == (y - 1) * 365 + ((y - 1) \div 4) - ((y - 1) \div 100) + ((y - 1) \div 400)

\* date(y, m, d).toordinal()
Ordinal(y, m, d) == DaysBeforeYear(y) + DaysBeforeMonth(y, m) + d

\* datetime.max.toordinal()
MaxOrdinal == Ordinal(9999, 12, 31)

IsDigits(f) == \A i \in 1..Len(f) : \E k \in 1..10 : DigitChars[k] = f[i]

DigitVal(ch) == (CHOOSE k \in 1..10 : DigitChars[k] = ch) - 1

\* int(f) for a string of digits
RECURSIVE IntOf(_)
IntOf(f) == IF Len(f) = 0 THEN 0
            ELSE 10 * IntOf(SubSeq(f, 1, Len(f) - 1)) + DigitVal(f[Len(f)])

\* datetime.strptime(s, '%Y-%m-%d'): four digits of year, one or two of month
\* and of day, separated by '-', naming a day of the calendar; anything else
\* raises ValueError (ok = FALSE).
strptime(s) ==
    LET f == Split(s, "-")
        wellFormed == /\ Len(f) = 3
                      /\ Len(f[1]) = 4 /\ IsDigits(f[1])
                      /\ Len(f[2]) \in {1, 2} /\ IsDigits(f[2])
                      /\ Len(f[3]) \in {1, 2} /\ IsDigits(f[3])
        y == IntOf(f[1])
        m == IntOf(f[2])
        d == IntOf(f[3])
    IN  IF wellFormed /\ y >= 1 /\ m \in 1..12 /\ d >= 1 /\ d <= DaysInMonth(y, m)
        THEN [ok |-> TRUE, ordinal |-> Ordinal(y, m, d)]
        ELSE [ok |-> FALSE, ordinal |-> 0]

\* created_at.strftime('%Y-%m-%d %H:%M')
strftime(t) == Pad4(t.year) \o <<"-">> \o Pad2(t.month) \o <<"-">> \o Pad2(t.day) \o <<" ">>
               \o Pad2(t.hour) \o <<":">> \o Pad2(t.minute)

\* An instant: the ordinal of its day and the second of that day.
Instant(t) == [day |-> Ordinal(t.year, t.month, t.day),
               second |-> t.hour * 3600 + t.minute * 60 + t.second]

\* Midnight at the start of a day.
Midnight(ordinal) == [day |-> ordinal, second |-> 0]

\* a < b for instants
Earlier(a, b) == a.day < b.day \/ (a.day = b.day /\ a.second < b.second)

(***************************************************************************)
(* The guild: its channels and the history of the text channel.             *)
(***************************************************************************)
\* ctx.guild.channels: name -> kind. A name that is not here is not found.
GuildChannels == <<[name |-> <<"g", "e", "n", "e", "r", "a", "l">>, kind |-> "TextChannel"],
                   [name |-> <<"l", "o", "u", "n", "g", "e">>, kind |-> "VoiceChannel"]>>

\* The channel names a user types.
ChannelNames == {<<"g", "e", "n", "e", "r", "a", "l">>, <<"l", "o", "u", "n", "g", "e">>, <<"n", "o", "w", "h", "e", "r", "e">>}

\* discord.utils.get(ctx.guild.channels, name=channel_name): the first channel
\* of that name, or None.
utils_get(channels, name) ==
    IF \E i \in 1..Len(channels) : channels[i].name = name
    THEN channels[CHOOSE i \in 1..Len(channels) :
                     /\ channels[i].name = name
                     /\ \A j \in 1..(i - 1) : channels[j].name # name]
    ELSE [name |-> <<>>, kind |-> "None"]

\* The display names of the people who write, and of the bot.
Authors == <<<<"a", "l", "i", "c", "e">>, <<"b", "o", "b">>, <<"c", "a", "r", "o", "l">>>>

BotName == <<"s", "u", "m", "m", "a", "r", "i", "z", "e", "r">>

\* A message body: every third one is longer than 100 characters.
Content(i) == IF i % 3 = 1 THEN [k \in 1..120 |-> IF k % 2 = 0 THEN "a" ELSE "b"] \o NatStr(i)
              ELSE <<"m", "s", "g", " ">> \o NatStr(i)

\* When message i of a history of n messages was written: the first one on
\* 2025-02-21, the last one on 2025-05-23, the others on 2025-05-22, one
\* second apart.
CreatedAt(i, n) ==
    LET day == IF i = 1 /\ n >= 3 THEN <<2025, 2, 21>>
               ELSE IF i = n /\ n >= 4 THEN <<2025, 5, 23>>
               ELSE <<2025, 5, 22>>
    IN  [year |-> day[1], month |-> day[2], day |-> day[3],
         hour |-> 9, minute |-> i \div 60, second |-> i % 60]

\* The channel's messages, oldest first; every fourth one is written by a bot.
History(n) ==
    [i \in 1..n |->
        [id |-> i,
         author |-> IF i % 4 = 0 THEN [display_name |-> BotName, bot |-> TRUE]
                    ELSE [display_name |-> Authors[(i % Len(Authors)) + 1], bot |-> FALSE],
         created_at |-> CreatedAt(i, n),
         content |-> Content(i)]]

HistorySizes == {0, 1, 3, 10, MaxHistory}

\* channel.history(limit=limit, after=after, before=before): the messages
\* strictly between the two instants, at most limit of them, counted from the
\* end the iteration starts at.
history(all, limit, after, before, oldest_first) ==
    LET inRange == SelectSeq(all, LAMBDA m : /\ Earlier(Midnight(after), Instant(m.created_at))
                                             /\ Earlier(Instant(m.created_at), Midnight(before)))
        ordered == IF oldest_first THEN inRange ELSE Reverse(inRange)
    IN  Take(ordered, limit)

(***************************************************************************)
(* What the user types.                                                     *)
(***************************************************************************)
DateStrings == {<<"2", "0", "2", "5", "-", "0", "1", "-", "0", "1">>, <<"2", "0", "2", "5", "-", "0", "2", "-", "2", "1">>, <<"2", "0", "2", "5", "-", "0", "2", "-", "2", "2">>, <<"2", "0", "2", "5", "-", "0", "5", "-", "2", "2">>,
                <<"9", "9", "9", "9", "-", "1", "2", "-", "3", "1">>, <<"2", "0", "2", "5", "-", "0", "2", "-", "3", "0">>, <<"2", "2", "/", "0", "5", "/", "2", "0", "2", "5">>}

ShortPrompt == <<"L", "i", "s", "t", " ", "t", "h", "e", " ", "d", "e", "c", "i", "s", "i", "o", "n", "s">>

LongPrompt == [k \in 1..101 |-> "p"]

Prompts == {ShortPrompt, LongPrompt}

(***************************************************************************)
(* The text-generation backend (client.messages.create) and the clock.      *)
(***************************************************************************)
\* A generated text of n characters.
Text(n) == [k \in 1..n |-> DigitChars[(k % 7) + 1]]

\* datetime.now().strftime('%Y-%m-%d %H:%M UTC')
NowStamp == <<"2", "0", "2", "5", "-", "0", "5", "-", "2", "4", " ", "1", "2", ":", "0", "0", " ", "U", "T", "C">>

\* What one call of the backend does: it answers with a text, it raises, or it
\* answers with an empty content list (response.content[0] raises IndexError).
BackendErrors == {<<"E", "r", "r", "o", "r", " ", "c", "o", "d", "e", ":", " ", "4", "0", "1", " ", "-", " ", "i", "n", "v", "a", "l", "i", "d", " ", "x", "-", "a", "p", "i", "-", "k", "e", "y">>, <<"C", "o", "n", "n", "e", "c", "t", "i", "o", "n", " ", "e", "r", "r", "o", "r", ".">>}

IndexErrorText == <<"l", "i", "s", "t", " ", "i", "n", "d", "e", "x", " ", "o", "u", "t", " ", "o", "f", " ", "r", "a", "n", "g", "e">>

\* How long the call blocks, in seconds.
BackendDurations == {2, 121}

\* The lengths of summary the backend's answers are chosen to produce: a short
\* one, and the lengths around each multiple of the segment size, and around
\* the length at which an annotated segment fills a payload.
SummaryLengths == {200} \cup {k * 2000 + d : k \in 1..MaxSegments, d \in {-21, -20, -1, 0, 1}}

(***************************************************************************)
(* MessageSummarizer                                                        *)
(***************************************************************************)
\* The orders in which a set of strings can be iterated: list(participants).
ListOf(set) == {s \in [1..Cardinality(set) -> set] : \A i, j \in DOMAIN s : i # j => s[i] # s[j]}

\* participants: msg.split(':')[0] of every message that holds a ':'.
Participants(messages) ==
    {SplitFirst(messages[i], ":") : i \in {k \in 1..Len(messages) : Contains(messages[k], ":")}}

\* One line of the brief summary: a message, cut to 100 characters and marked
\* with '...' when it is longer.
Bullet(msg) == IF Len(msg) > 100 THEN <<"<bullet>", " ">> \o Take(msg, 100) \o <<".", ".", ".">>
               ELSE <<"<bullet>", " ">> \o msg

\* _create_simple_summary(messages, channel_name), with the order in which the
\* set of participants is listed.
_create_simple_summary(messages, channel_name, listed) ==
    IF Len(messages) <= 5
    THEN <<"*", "*", "S", "u", "m", "m", "a", "r", "y", " ", "o", "f", " ", "#">> \o channel_name \o <<"*", "*", " ", "(">> \o Str(Len(messages)) \o <<" ", "m", "e", "s", "s", "a", "g", "e", "s", ")", ":", "\n", "\n">>
         \o <<"T", "h", "i", "s", " ", "w", "a", "s", " ", "a", " ", "b", "r", "i", "e", "f", " ", "c", "o", "n", "v", "e", "r", "s", "a", "t", "i", "o", "n", " ", "w", "i", "t", "h", " ", "t", "h", "e", " ", "f", "o", "l", "l", "o", "w", "i", "n", "g", " ", "k", "e", "y", " ", "m", "e", "s", "s", "a", "g", "e", "s", ":", "\n">>
         \o Join(<<"\n">>, [i \in 1..Min(3, Len(messages)) |-> Bullet(messages[i])])
    ELSE <<"*", "*", "S", "u", "m", "m", "a", "r", "y", " ", "o", "f", " ", "#">> \o channel_name \o <<"*", "*", " ", "(">> \o Str(Len(messages)) \o <<" ", "m", "e", "s", "s", "a", "g", "e", "s", ")", ":", "\n", "\n">>
         \o <<"<speaking>", "<vs16>", " ", "*", "*", "P", "a", "r", "t", "i", "c", "i", "p", "a", "n", "t", "s", "*", "*", ":", " ">> \o Join(<<",", " ">>, Take(listed, 5)) \o <<"\n">>
         \o <<"<calendar>", " ", "*", "*", "T", "i", "m", "e", " ", "R", "a", "n", "g", "e", "*", "*", ":", " ", "R", "e", "c", "e", "n", "t", " ", "a", "c", "t", "i", "v", "i", "t", "y", "\n">>
         \o <<"<speech>", " ", "*", "*", "A", "c", "t", "i", "v", "i", "t", "y", " ", "L", "e", "v", "e", "l", "*", "*", ":", " ">> \o Str(Len(messages)) \o <<" ", "m", "e", "s", "s", "a", "g", "e", "s", " ", "e", "x", "c", "h", "a", "n", "g", "e", "d", "\n", "\n">>
         \o <<"<warn>", "<vs16>", " ", "*", "D", "e", "t", "a", "i", "l", "e", "d", " ", "A", "I", " ", "s", "u", "m", "m", "a", "r", "y", " ", "u", "n", "a", "v", "a", "i", "l", "a", "b", "l", "e", " ", "-", " ", "C", "l", "a", "u", "d", "e", " ", "A", "P", "I", " ", "k", "e", "y", " ", "n", "o", "t", " ", "c", "o", "n", "f", "i", "g", "u", "r", "e", "d", "*">>

\* The header of an AI summary.
Header(messages, channel_name, custom_prompt, now) ==
    <<"<robot>", " ", "*", "*", "C", "u", "s", "t", "o", "m", " ", "C", "l", "a", "u", "d", "e", " ", "S", "u", "m", "m", "a", "r", "y", " ", "o", "f", " ", "#">> \o channel_name \o <<"*", "*", "\n">>
    \o <<"<chart>", " ">> \o Str(Len(messages)) \o <<" ", "m", "e", "s", "s", "a", "g", "e", "s", " ", "a", "n", "a", "l", "y", "z", "e", "d", "\n">>
    \o <<"<memo>", " ", "C", "u", "s", "t", "o", "m", " ", "p", "r", "o", "m", "p", "t", ":", " ">> \o Take(custom_prompt, 100)
    \o (IF Len(custom_prompt) > 100 THEN <<".", ".", ".">> ELSE <<>>) \o <<"\n">>
    \o <<"<clock>", " ", "G", "e", "n", "e", "r", "a", "t", "e", "d", " ", "a", "t", " ">> \o now \o <<"\n", "\n">>

\* if not self.client
no_client_never(client) == FALSE

no_client(client) == ~client

\* The except branch: the error and the fallback summary of the same messages.
error_result_no_cause(e, messages, channel_name, listed) ==
    <<"<x>", " ", "*", "*", "E", "r", "r", "o", "r", " ", "g", "e", "n", "e", "r", "a", "t", "i", "n", "g", " ", "A", "I", " ", "s", "u", "m", "m", "a", "r", "y", "*", "*", ":", " ">> \o <<"\n", "\n">>
    \o _create_simple_summary(messages, channel_name, listed)

error_result(e, messages, channel_name, listed) ==
    <<"<x>", " ", "*", "*", "E", "r", "r", "o", "r", " ", "g", "e", "n", "e", "r", "a", "t", "i", "n", "g", " ", "A", "I", " ", "s", "u", "m", "m", "a", "r", "y", "*", "*", ":", " ">> \o e \o <<"\n", "\n">>
    \o _create_simple_summary(messages, channel_name, listed)

\* summarize_messages_custom(messages, channel_name, custom_prompt): the string
\* it returns, the number of calls of client.messages.create it makes, and
\* str(e) of the exception its try block caught (empty when none).
\* backend is what the call does when it is made: [kind, text] with kind
\* "text" (the answer), "raise" (str(e)) or "empty" (no content block).
\* The prompt (the messages joined by newlines, cut to their last 150000
\* characters, under the custom prompt) goes to the backend and has no part in
\* what is returned.
summarize_messages_custom(client, messages, channel_name, custom_prompt, backend, now, listed) ==
    IF Len(messages) = 0
    THEN [text |-> <<"N", "o", " ", "m", "e", "s", "s", "a", "g", "e", "s", " ", "t", "o", " ", "s", "u", "m", "m", "a", "r", "i", "z", "e", ".">>, calls |-> 0, raised |-> <<>>]
    ELSE IF no_client(client)
    THEN [text |-> _create_simple_summary(messages, channel_name, listed), calls |-> 0,
          raised |-> <<>>]
    ELSE IF backend.kind = "text"
    THEN [text |-> Header(messages, channel_name, custom_prompt, now) \o backend.text, calls |-> 1,
          raised |-> <<>>]
    ELSE IF backend.kind = "raise"
    THEN [text |-> error_result(backend.text, messages, channel_name, listed), calls |-> 1,
          raised |-> backend.text]
    ELSE [text |-> error_result(IndexErrorText, messages, channel_name, listed), calls |-> 1,
          raised |-> IndexErrorText]

(***************************************************************************)
(* fetch_messages_by_date_range                                             *)
(***************************************************************************)
\* "Username (YYYY-MM-DD HH:MM): Message content"
formatted_msg(message) ==
    message.author.display_name \o <<" ", "(">> \o strftime(message.created_at) \o <<")", ":", " ">>
    \o message.content

\* The start of the retrieval: the start date, or 90 days before the end of
\* the range when the range is longer than that.
start_datetime_late(start_datetime, end_datetime) ==
    IF end_datetime - start_datetime > 90 THEN end_datetime - 89 ELSE start_datetime

start_datetime_clamped(start_datetime, end_datetime) ==
    IF end_datetime - start_datetime > 90 THEN end_datetime - 90 ELSE start_datetime

NoWindow == [messages |-> <<>>, times |-> <<>>, calls |-> <<>>]

\* fetch_messages_by_date_range(channel, start_date, end_date, limit): the
\* formatted messages it returns, the instants they were written at, and the
\* calls of channel.history it makes. source is what the channel does when it
\* is asked: [outcome, oldest_first], outcome "ok", "Forbidden" or "Exception".
fetch_messages_by_date_range(all, start_date, end_date, limit, source) ==
    LET s == strptime(start_date)
        e == strptime(end_date)
    IN  IF ~s.ok \/ ~e.ok
        THEN NoWindow                                  \* except ValueError
        ELSE IF e.ordinal + 1 > MaxOrdinal
        THEN NoWindow                                  \* OverflowError: except Exception
        ELSE LET end_datetime == e.ordinal + 1
                 start_datetime == start_datetime_clamped(s.ordinal, end_datetime)
                 call == [limit |-> limit, after |-> start_datetime, before |-> end_datetime]
                 got == history(all, limit, start_datetime, end_datetime, source.oldest_first)
                 kept == SelectSeq(got, LAMBDA m : ~m.author.bot)
             IN  IF source.outcome # "ok"
                 THEN [NoWindow EXCEPT !.calls = <<call>>]
                 ELSE [messages |-> Reverse([i \in 1..Len(kept) |-> formatted_msg(kept[i])]),
                       times |-> Reverse([i \in 1..Len(kept) |-> Instant(kept[i].created_at)]),
                       calls |-> <<call>>]

Sources == [outcome : {"ok", "Forbidden", "Exception"}, oldest_first : BOOLEAN]

(***************************************************************************)
(* ctx.send                                                                 *)
(***************************************************************************)
\* The platform takes a message of at most 2000 characters; a longer one is
\* refused and ctx.send raises HTTPException.
Deliverable(payload) == Len(payload) <= 2000

HTTPExceptionText == <<"4", "0", "0", " ", "B", "a", "d", " ", "R", "e", "q", "u", "e", "s", "t", " ", "(", "e", "r", "r", "o", "r", " ", "c", "o", "d", "e", ":", " ", "5", "0", "0", "3", "5", ")", ":", " ", "I", "n", "v", "a", "l", "i", "d", " ", "F", "o", "r", "m", " ", "B", "o", "d", "y">>

\* await ctx.send(p) for each p of payloads in turn, up to the first that
\* raises: the payloads passed to ctx.send, those delivered, and whether one
\* raised.
ctx_send_all(payloads) ==
    LET bad == {i \in 1..Len(payloads) : ~Deliverable(payloads[i])}
        stop == IF bad = {} THEN Len(payloads) + 1
                ELSE CHOOSE i \in bad : \A j \in bad : i <= j
    IN  [attempted |-> SubSeq(payloads, 1, Min(stop, Len(payloads))),
         sent |-> SubSeq(payloads, 1, stop - 1),
         raised |-> bad # {}]

\* except Exception as e, of summarize_custom_command
ErrorReplies(e) == <<<<"<x>", " ", "A", "n", " ", "e", "r", "r", "o", "r", " ", "o", "c", "c", "u", "r", "r", "e", "d", ":", " ">> \o e,
                     <<"T", "r", "y", " ", "u", "s", "i", "n", "g", " ", "a", " ", "s", "m", "a", "l", "l", "e", "r", " ", "d", "a", "t", "e", " ", "r", "a", "n", "g", "e", " ", "o", "r", " ", "c", "h", "e", "c", "k", " ", "t", "h", "e", " ", "c", "h", "a", "n", "n", "e", "l", " ", "n", "a", "m", "e", ".">>>>

(***************************************************************************)
(* The replies of summarize_custom_command                                  *)
(***************************************************************************)
ChannelNotFound(channel_name) == <<"<x>", " ", "C", "h", "a", "n", "n", "e", "l", " ", "'">> \o channel_name \o <<"'", " ", "n", "o", "t", " ", "f", "o", "u", "n", "d", ".">>

NotATextChannel(channel_name) == <<"<x>", " ", "'">> \o channel_name \o <<"'", " ", "i", "s", " ", "n", "o", "t", " ", "a", " ", "t", "e", "x", "t", " ", "c", "h", "a", "n", "n", "e", "l", ".">>

RangeWarning(days_diff) ==
    <<"<warn>", "<vs16>", " ", "D", "a", "t", "e", " ", "r", "a", "n", "g", "e", " ", "i", "s", " ">> \o Str(days_diff) \o <<" ", "d", "a", "y", "s", ".", " ", "F", "o", "r", " ", "p", "e", "r", "f", "o", "r", "m", "a", "n", "c", "e", ",", " ", "l", "i", "m", "i", "t", "i", "n", "g", " ", "t", "o", " ", "l", "a", "s", "t", " ", "9", "0", " ", "d", "a", "y", "s", ".">>

StartAfterEnd == <<"<x>", " ", "S", "t", "a", "r", "t", " ", "d", "a", "t", "e", " ", "m", "u", "s", "t", " ", "b", "e", " ", "b", "e", "f", "o", "r", "e", " ", "e", "n", "d", " ", "d", "a", "t", "e", ".">>

InvalidDateFormat == <<"<x>", " ", "I", "n", "v", "a", "l", "i", "d", " ", "d", "a", "t", "e", " ", "f", "o", "r", "m", "a", "t", ".", " ", "P", "l", "e", "a", "s", "e", " ", "u", "s", "e", " ", "Y", "Y", "Y", "Y", "-", "M", "M", "-", "D", "D", " ", "f", "o", "r", "m", "a", "t", " ", "(", "e", ".", "g", ".", ",", " ", "2", "0", "2", "5", "-", "0", "5", "-", "2", "2", ")">>

FetchingNotice(channel_name, start_date, end_date) ==
    <<"<chart>", " ", "F", "e", "t", "c", "h", "i", "n", "g", " ", "m", "e", "s", "s", "a", "g", "e", "s", " ", "f", "r", "o", "m", " ", "#">> \o channel_name \o <<" ", "b", "e", "t", "w", "e", "e", "n", " ">> \o start_date
    \o <<" ", "a", "n", "d", " ">> \o end_date \o <<".", ".", ".">>

MayTakeAMoment == <<"<hourglass>", " ", "T", "h", "i", "s", " ", "m", "a", "y", " ", "t", "a", "k", "e", " ", "a", " ", "m", "o", "m", "e", "n", "t", " ", "f", "o", "r", " ", "l", "a", "r", "g", "e", " ", "d", "a", "t", "e", " ", "r", "a", "n", "g", "e", "s", ".", ".", ".">>

NoMessagesNotice(channel_name) ==
    <<"N", "o", " ", "m", "e", "s", "s", "a", "g", "e", "s", " ", "f", "o", "u", "n", "d", " ", "i", "n", " ", "#">> \o channel_name \o <<" ", "f", "o", "r", " ", "t", "h", "e", " ", "s", "p", "e", "c", "i", "f", "i", "e", "d", " ", "d", "a", "t", "e", " ", "r", "a", "n", "g", "e", ".">>

LargeDatasetNotice(n) ==
    <<"<uptrend>", " ", "F", "o", "u", "n", "d", " ">> \o Str(n)
    \o <<" ", "m", "e", "s", "s", "a", "g", "e", "s", ".", " ", "T", "h", "i", "s", " ", "i", "s", " ", "a", " ", "l", "a", "r", "g", "e", " ", "d", "a", "t", "a", "s", "e", "t", " ", "-", " ", "C", "l", "a", "u", "d", "e", " ", "a", "n", "a", "l", "y", "s", "i", "s", " ", "m", "a", "y", " ", "t", "a", "k", "e", " ", "3", "0", "-", "6", "0", " ", "s", "e", "c", "o", "n", "d", "s", ".", ".", ".">>

AnalyzingNotice(n) ==
    <<"<robot>", " ", "C", "l", "a", "u", "d", "e", " ", "i", "s", " ", "a", "n", "a", "l", "y", "z", "i", "n", "g", " ">> \o Str(n) \o <<" ", "m", "e", "s", "s", "a", "g", "e", "s", " ", "w", "i", "t", "h", " ", "y", "o", "u", "r", " ", "c", "u", "s", "t", "o", "m", " ", "p", "r", "o", "m", "p", "t", ".", ".", ".">>

TimeoutNotice == <<"<clock>", " ", "A", "n", "a", "l", "y", "s", "i", "s", " ", "t", "i", "m", "e", "d", " ", "o", "u", "t", ".", " ", "T", "r", "y", " ", "a", " ", "s", "m", "a", "l", "l", "e", "r", " ", "d", "a", "t", "e", " ", "r", "a", "n", "g", "e", " ", "o", "r", " ", "f", "e", "w", "e", "r", " ", "m", "e", "s", "s", "a", "g", "e", "s", ".">>

\* f"**Continued ({i+1}/{len(chunks)}):**\n{chunk}", i counted from 0
Continued(i, n, chunk) ==
    <<"*", "*", "C", "o", "n", "t", "i", "n", "u", "e", "d", " ", "(">> \o Str(i + 1) \o <<"/">> \o Str(n) \o <<")", ":", "*", "*", "\n">> \o chunk

(***************************************************************************)
(* The replies of summarize_command and of on_command_error                 *)
(***************************************************************************)
FetchingLastHours(hours) ==
    <<"<chart>", " ", "F", "e", "t", "c", "h", "i", "n", "g", " ", "m", "e", "s", "s", "a", "g", "e", "s", " ", "f", "r", "o", "m", " ", "t", "h", "e", " ", "l", "a", "s", "t", " ">> \o Str(hours) \o <<" ", "h", "o", "u", "r", "s", ".", ".", ".">>

\* fetch_recent_messages is not defined in the module: calling it raises
\* NameError, which the command framework wraps and hands to on_command_error.
NameErrorText ==
    <<"C", "o", "m", "m", "a", "n", "d", " ", "r", "a", "i", "s", "e", "d", " ", "a", "n", " ", "e", "x", "c", "e", "p", "t", "i", "o", "n", ":", " ", "N", "a", "m", "e", "E", "r", "r", "o", "r", ":", " ", "n", "a", "m", "e", " ", "'", "f", "e", "t", "c", "h", "_", "r", "e", "c", "e", "n", "t", "_", "m", "e", "s", "s", "a", "g", "e", "s", "'", " ", "i", "s", " ", "n", "o", "t", " ", "d", "e", "f", "i", "n", "e", "d">>

CommandError(error) == <<"<x>", " ", "E", "r", "r", "o", "r", ":", " ">> \o error

(***************************************************************************)
(* summarize_custom_command, up to the fetch                                *)
(***************************************************************************)
\* elif days_diff < 0
start_after_end_never(days_diff) == FALSE

start_after_end(days_diff) == days_diff < 0

\* The checks before the fetch: the replies they send and whether the command
\* goes on to fetch.
validate(channel_name, start_date, end_date) ==
    LET channel == utils_get(GuildChannels, channel_name)
        start_dt == strptime(start_date)
        end_dt == strptime(end_date)
        days_diff == end_dt.ordinal - start_dt.ordinal
    IN  IF channel.kind = "None"
        THEN [replies |-> <<ChannelNotFound(channel_name)>>, proceed |-> FALSE]
        ELSE IF channel.kind # "TextChannel"
        THEN [replies |-> <<NotATextChannel(channel_name)>>, proceed |-> FALSE]
        ELSE IF ~start_dt.ok \/ ~end_dt.ok
        THEN [replies |-> <<InvalidDateFormat>>, proceed |-> FALSE]
        ELSE IF days_diff > 90
        THEN [replies |-> <<RangeWarning(days_diff),
                            FetchingNotice(channel_name, start_date, end_date),
                            MayTakeAMoment>>, proceed |-> TRUE]
        ELSE IF start_after_end(days_diff)
        THEN [replies |-> <<StartAfterEnd>>, proceed |-> FALSE]
        ELSE [replies |-> <<FetchingNotice(channel_name, start_date, end_date),
                            MayTakeAMoment>>, proceed |-> TRUE]

\* if not messages (after the fetch)
no_messages_never(messages) == FALSE

no_messages(messages) == Len(messages) = 0

(***************************************************************************)
(* asyncio.wait_for                                                         *)
(***************************************************************************)
\* Whether summarize_messages_custom gives the event loop a turn while the
\* backend call runs: it does not, the call is made on the synchronous client
\* and is not awaited.
BackendCallYields == FALSE

\* asyncio.wait_for(coroutine, timeout): the timer's callback runs only when
\* the event loop has a turn, so a coroutine that finishes without yielding
\* hands over its result whatever time it took.
wait_for_expires(yields, duration, limit) == yields /\ duration > limit

(***************************************************************************)
(* The split of a long summary                                              *)
(***************************************************************************)
\* [summary[i:i+2000] for i in range(0, len(summary), 2000)] when the summary
\* is longer than 2000 characters, the summary itself otherwise.
split_summary_short(summary) ==
    IF Len(summary) > 2000
    THEN [k \in 1..((Len(summary) + 1999) \div 2000) |-> Slice(summary, (k - 1) * 2000, 1999)]
    ELSE <<summary>>

split_summary(summary) ==
    IF Len(summary) > 2000
    THEN [k \in 1..((Len(summary) + 1999) \div 2000) |-> Slice(summary, (k - 1) * 2000, 2000)]
    ELSE <<summary>>

\* What is passed to ctx.send for each chunk: the first as it is, the others
\* under a continuation line.
payloads_of(cs) ==
    [k \in 1..Len(cs) |-> IF k = 1 THEN cs[k] ELSE Continued(k - 1, Len(cs), cs[k])]

(***************************************************************************)
(* State                                                                    *)
(***************************************************************************)
VARIABLES
    hasClient,      \* summarizer.client is not None
    historySize,    \* the text channel holds History(historySize)
    pc,             \* where the invocation is: "idle", "fetching", "summarizing", "delivering", "done"
    command,        \* the command invoked, "" when none
    args,           \* its arguments
    fetch,          \* what the fetch did: "none", "ok", "Forbidden", "Exception", "ValueError"
    oldestFirst,    \* the order the channel delivered its history in
    messages,       \* the list the fetch returned
    times,          \* the instants the messages of that list were written at
    historyCalls,   \* the calls of channel.history, as [limit, after, before]
    backendCalls,   \* the number of calls of client.messages.create
    elapsed,        \* the seconds the backend call took
    backendRaised,  \* str(e) of the exception the backend call raised, empty when none
    summary,        \* the string the summarizer returned
    chunks,         \* the pieces the summary was split into
    attempted,      \* the payloads passed to ctx.send, in order
    sent,           \* the payloads delivered, in order
    outcome         \* how the invocation ended, "" while it runs

vars == <<hasClient, historySize, pc, command, args, fetch, oldestFirst, messages, times,
          historyCalls, backendCalls, elapsed, backendRaised, summary, chunks, attempted,
          sent, outcome>>

NoArgs == [channel_name |-> <<>>, start_date |-> <<>>, end_date |-> <<>>,
           summary_prompt |-> <<>>, hours |-> 0, limit |-> 0]

Init ==
    /\ hasClient \in BOOLEAN
    /\ historySize \in HistorySizes
    /\ pc = "idle"
    /\ command = ""
    /\ args = NoArgs
    /\ fetch = "none"
    /\ oldestFirst = FALSE
    /\ messages = <<>>
    /\ times = <<>>
    /\ historyCalls = <<>>
    /\ backendCalls = 0
    /\ elapsed = 0
    /\ backendRaised = <<>>
    /\ summary = <<>>
    /\ chunks = <<>>
    /\ attempted = <<>>
    /\ sent = <<>>
    /\ outcome = ""

\* The replies of one step go to ctx.send; when one of them raises, the
\* handler's except Exception reports it and the invocation is over.
Reply(replies, nextPc, nextOutcome) ==
    LET r == ctx_send_all(replies)
    IN  IF r.raised
        THEN /\ attempted' = attempted \o r.attempted \o ErrorReplies(HTTPExceptionText)
             /\ sent' = sent \o r.sent \o ErrorReplies(HTTPExceptionText)
             /\ pc' = "done"
             /\ outcome' = "error"
        ELSE /\ attempted' = attempted \o r.attempted
             /\ sent' = sent \o r.sent
             /\ pc' = nextPc
             /\ outcome' = nextOutcome

(***************************************************************************)
(* Actions                                                                  *)
(***************************************************************************)
\* !summarize_custom channel_name start_date end_date summary_prompt: the
\* handler up to its call of fetch_messages_by_date_range.
SummarizeCustomInvoke ==
    /\ pc = "idle"
    /\ \E channel_name \in ChannelNames, start_date \in DateStrings,
          end_date \in DateStrings, summary_prompt \in Prompts :
          LET v == validate(channel_name, start_date, end_date)
          IN  /\ command' = "summarize_custom"
              /\ args' = [NoArgs EXCEPT !.channel_name = channel_name,
                                        !.start_date = start_date,
                                        !.end_date = end_date,
                                        !.summary_prompt = summary_prompt]
              /\ Reply(v.replies,
                       IF v.proceed THEN "fetching" ELSE "done",
                       IF v.proceed THEN "" ELSE "rejected")
    /\ UNCHANGED <<hasClient, historySize, fetch, oldestFirst, messages, times,
                   historyCalls, backendCalls, elapsed, backendRaised, summary, chunks>>

\* fetch_messages_by_date_range(channel, start_date, end_date, limit=200) and
\* the handler's replies to what it returns.
FetchMessages ==
    /\ pc = "fetching"
    /\ \E source \in Sources :
          LET f == fetch_messages_by_date_range(History(historySize), args.start_date,
                                                args.end_date, 200, source)
              n == Len(f.messages)
          IN  /\ fetch' = IF f.calls = <<>> THEN "Exception" ELSE source.outcome
              /\ oldestFirst' = (f.calls # <<>> /\ source.oldest_first)
              /\ messages' = f.messages
              /\ times' = f.times
              /\ historyCalls' = historyCalls \o f.calls
              /\ IF no_messages(f.messages)
                 THEN Reply(<<NoMessagesNotice(args.channel_name)>>, "done", "empty")
                 ELSE Reply((IF n > 100 THEN <<LargeDatasetNotice(n)>> ELSE <<>>)
                            \o <<AnalyzingNotice(n)>>, "summarizing", "")
    /\ UNCHANGED <<hasClient, historySize, command, args, backendCalls, elapsed,
                   backendRaised, summary, chunks>>

\* The answers the backend can give to a call: a text that brings the summary
\* to one of SummaryLengths, an error, or a response without content.
Backends(headerLength) ==
    {[kind |-> "text", text |-> Text(n - headerLength)] :
        n \in {l \in SummaryLengths : l >= headerLength}}
    \cup {[kind |-> "raise", text |-> e] : e \in BackendErrors}
    \cup {[kind |-> "empty", text |-> <<>>]}

\* await asyncio.wait_for(summarizer.summarize_messages_custom(...), timeout=120)
Summarize ==
    /\ pc = "summarizing"
    /\ \E listed \in ListOf(Participants(messages)), duration \in BackendDurations,
          backend \in Backends(Len(Header(messages, args.channel_name,
                                          args.summary_prompt, NowStamp))) :
          LET r == summarize_messages_custom(hasClient, messages, args.channel_name,
                                             args.summary_prompt, backend, NowStamp, listed)
              took == IF r.calls > 0 THEN duration ELSE 0
          IN  /\ backendCalls' = backendCalls + r.calls
              /\ elapsed' = took
              /\ backendRaised' = r.raised
              /\ IF wait_for_expires(BackendCallYields, took, 120)
                 THEN /\ summary' = summary
                      /\ Reply(<<TimeoutNotice>>, "done", "timeout")
                 ELSE /\ summary' = r.text
                      /\ Reply(<<>>, "delivering", "")
    /\ UNCHANGED <<hasClient, historySize, command, args, fetch, oldestFirst, messages,
                   times, historyCalls, chunks>>

\* The delivery of the summary, split when it is longer than 2000 characters.
Deliver ==
    /\ pc = "delivering"
    /\ chunks' = split_summary(summary)
    /\ Reply(payloads_of(split_summary(summary)), "done", "summarized")
    /\ UNCHANGED <<hasClient, historySize, command, args, fetch, oldestFirst, messages,
                   times, historyCalls, backendCalls, elapsed, backendRaised, summary>>

\* !summarize [hours] [limit]: the first reply, then the call of
\* fetch_recent_messages raises NameError and on_command_error reports it.
SummarizeInvoke ==
    /\ pc = "idle"
    /\ \E hours \in {24, 48}, limit \in {100, 50} :
          /\ command' = "summarize"
          /\ args' = [NoArgs EXCEPT !.hours = hours, !.limit = limit]
          /\ attempted' = attempted \o <<FetchingLastHours(hours), CommandError(NameErrorText)>>
          /\ sent' = sent \o <<FetchingLastHours(hours), CommandError(NameErrorText)>>
    /\ pc' = "done"
    /\ outcome' = "command_error"
    /\ UNCHANGED <<hasClient, historySize, fetch, oldestFirst, messages, times,
                   historyCalls, backendCalls, elapsed, backendRaised, summary, chunks>>

\* The invocation is over and its objects are dropped; the bot waits for the
\* next command.
InvocationEnds ==
    /\ pc = "done"
    /\ pc' = "idle"
    /\ command' = ""
    /\ args' = NoArgs
    /\ fetch' = "none"
    /\ oldestFirst' = FALSE
    /\ messages' = <<>>
    /\ times' = <<>>
    /\ historyCalls' = <<>>
    /\ backendCalls' = 0
    /\ elapsed' = 0
    /\ backendRaised' = <<>>
    /\ summary' = <<>>
    /\ chunks' = <<>>
    /\ attempted' = <<>>
    /\ sent' = <<>>
    /\ outcome' = ""
    /\ UNCHANGED <<hasClient, historySize>>

Next ==
    \/ SummarizeCustomInvoke
    \/ FetchMessages
    \/ Summarize
    \/ Deliver
    \/ SummarizeInvoke
    \/ InvocationEnds

Spec == Init /\ [][Next]_vars

(***************************************************************************)
(* Properties                                                               *)
(***************************************************************************)
Last(s) == s[Len(s)]

\* All the strings of ss, one after the other.
RECURSIVE Flatten(_)
Flatten(ss) == IF Len(ss) = 0 THEN <<>> ELSE ss[1] \o Flatten(Tail(ss))

\* sub occurs in s
IsInfix(sub, s) == \E k \in 0..(Len(s) - Len(sub)) : SubSeq(s, k + 1, k + Len(sub)) = sub

\* s ends with tail
IsSuffix(tail, s) == Len(tail) <= Len(s) /\ SubSeq(s, Len(s) - Len(tail) + 1, Len(s)) = tail

\* ceil(n / m)
Ceil(n, m) == CHOOSE c \in 0..n : (c - 1) * m < n /\ n <= c * m

\* The fallback summaries of the fetched messages, one for each order the set
\* of participants can be listed in.
FallbackSummaries ==
    {_create_simple_summary(messages, args.channel_name, listed) :
        listed \in ListOf(Participants(messages))}

\* C1: when the fetch of summarize_custom returns an empty window, the last
\* message sent is the "No messages found" notice, the invocation is over, and
\* the backend has not been called.
C1_EmptyWindowEndsWithNotice ==
    (command = "summarize_custom" /\ fetch # "none" /\ messages = <<>>) =>
        /\ backendCalls = 0
        /\ pc = "done"
        /\ sent # <<>>
        /\ Last(sent) = NoMessagesNotice(args.channel_name)

\* The channel has messages, the history call succeeded, and none of them is
\* in the window.
C1_Witness ==
    /\ command = "summarize_custom" /\ fetch = "ok" /\ historySize > 0
    /\ messages = <<>> /\ pc = "done" /\ outcome = "empty"

\* C2: without a client, what the summarizer returns for a non-empty list is
\* the result of _create_simple_summary on that list, and
\* client.messages.create is not called.
C2_NoCredentialMeansFallback ==
    ~hasClient =>
        /\ backendCalls = 0
        /\ (messages # <<>> /\ pc \in {"delivering", "done"}) => summary \in FallbackSummaries

\* A list of more than five messages was summarized without a client.
C2_Witness ==
    /\ ~hasClient /\ Len(messages) > 5 /\ pc = "done" /\ outcome = "summarized"
    /\ chunks = <<summary>>

\* C3: when the backend call takes longer than the 120 seconds of the timeout,
\* the user is sent the timeout notice and no summary.
C3_SlowBackendYieldsTimeoutNotice ==
    (command = "summarize_custom" /\ elapsed > 120 /\ pc = "done") =>
        /\ outcome = "timeout"
        /\ Last(sent) = TimeoutNotice
        /\ chunks = <<>>

\* The arguments of summarize_custom that are to be refused before any fetch.
InvalidInput ==
    \/ ~\E i \in 1..Len(GuildChannels) :
            /\ GuildChannels[i].name = args.channel_name
            /\ GuildChannels[i].kind = "TextChannel"
    \/ ~strptime(args.start_date).ok
    \/ ~strptime(args.end_date).ok
    \/ strptime(args.end_date).ordinal < strptime(args.start_date).ordinal

\* C4: summarize_custom with an unknown channel, a channel that is no text
\* channel, a date that does not parse or an end date before the start date
\* sends one error reply and ends, without a history call or a backend call.
C4_InvalidInputIsRefusedBeforeFetch ==
    (command = "summarize_custom" /\ InvalidInput) =>
        /\ pc = "done"
        /\ outcome = "rejected"
        /\ sent \in {<<ChannelNotFound(args.channel_name)>>,
                     <<NotATextChannel(args.channel_name)>>,
                     <<InvalidDateFormat>>,
                     <<StartAfterEnd>>}
        /\ fetch = "none"
        /\ historyCalls = <<>>
        /\ backendCalls = 0

\* An end date before the start date was refused.
C4_Witness ==
    /\ command = "summarize_custom" /\ pc = "done"
    /\ strptime(args.start_date).ok /\ strptime(args.end_date).ok
    /\ strptime(args.end_date).ordinal < strptime(args.start_date).ordinal
    /\ sent = <<StartAfterEnd>>

\* C5: an error of the backend call does not leave summarize_messages_custom:
\* the function returns, and what it returns holds the error's message and
\* ends with the fallback summary of the same messages.
C5_BackendErrorIsAbsorbed ==
    backendRaised # <<>> =>
        /\ hasClient /\ messages # <<>> /\ backendCalls = 1
        /\ pc \in {"delivering", "done"}
        /\ IsInfix(backendRaised, summary)
        /\ \E fallback \in FallbackSummaries : IsSuffix(fallback, summary)

\* The backend raised on a list of more than five messages and the result
\* was delivered.
C5_Witness ==
    /\ backendRaised \in BackendErrors /\ Len(messages) > 5
    /\ pc = "done" /\ outcome = "summarized"

\* C6: the chunks of a summary, in order, make up the summary, each is at
\* most 2000 characters long, there are ceil(len(summary) / 2000) of them, and
\* a summary of at most 2000 characters is sent as it is, in one message.
C6_ChunksPartitionTheSummary ==
    chunks # <<>> =>
        /\ Flatten(chunks) = summary
        /\ \A i \in 1..Len(chunks) : Len(chunks[i]) <= 2000
        /\ Len(chunks) = Ceil(Len(summary), 2000)
        /\ Len(summary) <= 2000 => (outcome = "summarized" /\ Last(sent) = summary)

\* A summary of 4001 characters was split in three.
C6_Witness ==
    /\ Len(summary) = 4001 /\ Len(chunks) = 3 /\ Len(chunks[3]) = 1

\* C7: the list the fetch returns is oldest first, whichever order the
\* channel delivered its history in.
C7_WindowIsChronological ==
    fetch = "ok" => \A i \in 1..(Len(times) - 1) : ~Earlier(times[i + 1], times[i])

\* C8: every history call of the date-range fetch ends at the day after the
\* end date; it starts 90 days before that when the range, up to that end, is
\* longer than 90 days, and at the start date otherwise.
C8_RangeIsClampedToNinetyDays ==
    \A i \in 1..Len(historyCalls) :
        LET start == strptime(args.start_date).ordinal
            end == strptime(args.end_date).ordinal + 1
        IN  /\ historyCalls[i].before = end
            /\ end - start > 90 => historyCalls[i].after = end - 90
            /\ end - start <= 90 => historyCalls[i].after = start

\* The range 2025-01-01 to 2025-05-22 was fetched from 2025-02-22 on.
C8_Witness ==
    /\ args.start_date = <<"2", "0", "2", "5", "-", "0", "1", "-", "0", "1">> /\ args.end_date = <<"2", "0", "2", "5", "-", "0", "5", "-", "2", "2">>
    /\ Len(historyCalls) = 1
    /\ historyCalls[1].after = Ordinal(2025, 2, 22)
    /\ historyCalls[1].before = Ordinal(2025, 5, 23)

\* C9: an invocation of summarize ends with the "No messages found" notice or
\* with the summary, not with a command error.
C9_SummarizeEndsWithNoticeOrSummary ==
    (command = "summarize" /\ pc = "done") => outcome \in {"empty", "summarized"}

\* C10: every payload summarize_custom passes to ctx.send is at most 2000
\* characters long, and a summary that was split is delivered whole.
C10_PayloadsFitTheTransport ==
    command = "summarize_custom" =>
        /\ \A i \in 1..Len(attempted) : Len(attempted[i]) <= 2000
        /\ (pc = "done" /\ chunks # <<>>) => outcome = "summarized"

=============================================================================
